---- MODULE Spec2Model ----
(***************************************************************************)
(* Electrical Load & Wireway Sizing (src/src/app.py).                      *)
(*                                                                         *)
(* The page is a Dash application: a set of component properties (the ten  *)
(* numeric inputs, three selects, twelve result properties, a print        *)
(* button) and four callbacks wired to them.  The model holds the          *)
(* component properties as state, one action per user event and one per    *)
(* callback run.                                                           *)
(*                                                                         *)
(* Numbers.  Every numeric input is None or a count of thousandths (the    *)
(* inputs' step is 0.001): 535 A is 535000, 0.96 is 960.  None is NULL.    *)
(* Python computes in binary floating point; the model computes the same   *)
(* expressions in exact rational arithmetic over unbounded naturals, and   *)
(* math.pi is the exact value of the double, 884279719003555 / 2^48.  The  *)
(* model therefore differs from the program only by the rounding error of  *)
(* the individual float operations (relative 2^-53).                       *)
(***************************************************************************)
EXTENDS Integers, Sequences, FiniteSets, TLC

(***************************************************************************)
(* Unbounded naturals: little-endian digit sequences, no leading zero,     *)
(* zero is the empty sequence.  TLC's own integers are 32 bit.             *)
(***************************************************************************)
Radix == 100 * 100

RECURSIVE BigFromNat(_)
BigFromNat(n) ==
    IF n = 0 THEN << >> ELSE <<n % Radix>> \o BigFromNat(n \div Radix)

RECURSIVE BigAddC(_, _, _)
BigAddC(a, b, c) ==
    IF a = << >> /\ b = << >> THEN (IF c = 0 THEN << >> ELSE <<c>>)
    ELSE LET x == IF a = << >> THEN 0 ELSE Head(a)
             y == IF b = << >> THEN 0 ELSE Head(b)
             s == x + y + c
         IN  <<s % Radix>> \o BigAddC(IF a = << >> THEN a ELSE Tail(a),
                                      IF b = << >> THEN b ELSE Tail(b),
                                      s \div Radix)

BigAdd(a, b) == BigAddC(a, b, 0)

RECURSIVE BigMulDigit(_, _, _)
BigMulDigit(a, d, c) ==
    IF a = << >> THEN (IF c = 0 THEN << >> ELSE <<c>>)
    ELSE LET s == Head(a) * d + c
         IN  <<s % Radix>> \o BigMulDigit(Tail(a), d, s \div Radix)

BigShift(a) == IF a = << >> THEN a ELSE <<0>> \o a

RECURSIVE BigMul(_, _)
BigMul(a, b) ==
    IF a = << >> \/ b = << >> THEN << >>
    ELSE BigAdd(IF Head(b) = 0 THEN << >> ELSE BigMulDigit(a, Head(b), 0),
                BigShift(BigMul(a, Tail(b))))

RECURSIVE BigCmpAt(_, _, _)
BigCmpAt(a, b, i) ==
    IF i = 0 THEN 0
    ELSE IF a[i] < b[i] THEN -1
    ELSE IF a[i] > b[i] THEN 1
    ELSE BigCmpAt(a, b, i - 1)

\* -1, 0, 1 as a < b, a = b, a > b
BigCmp(a, b) ==
    IF Len(a) < Len(b) THEN -1
    ELSE IF Len(a) > Len(b) THEN 1
    ELSE BigCmpAt(a, b, Len(a))

RECURSIVE BigTrim(_)
\* a without its leading zero digits
BigTrim(a) ==
    IF a = << >> \/ a[Len(a)] # 0 THEN a ELSE BigTrim(SubSeq(a, 1, Len(a) - 1))

RECURSIVE BigSubB(_, _, _)
BigSubB(a, b, borrow) ==
    IF a = << >> THEN << >>
    ELSE LET y == (IF b = << >> THEN 0 ELSE Head(b)) + borrow
             x == Head(a)
         IN  <<IF x >= y THEN x - y ELSE x + Radix - y>>
                 \o BigSubB(Tail(a), IF b = << >> THEN b ELSE Tail(b),
                            IF x >= y THEN 0 ELSE 1)

\* a - b for a >= b
BigSub(a, b) == BigTrim(BigSubB(a, b, 0))

RECURSIVE BigDigitFix(_, _, _)
\* the largest t' <= t with t' * d <= r
BigDigitFix(r, d, t) ==
    IF t = 0 \/ BigCmp(BigMulDigit(d, t, 0), r) <= 0 THEN t
    ELSE BigDigitFix(r, d, t - 1)

RECURSIVE BigDivLoop(_, _, _, _, _)
\* Long division of n by d, digit i of n next, rem the remainder so far and
\* q the quotient so far.  d is scaled so that its leading digit is at least
\* Radix / 2, which puts the estimate of a quotient digit from the leading
\* digits at most 2 above the digit.
BigDivLoop(n, d, i, rem, q) ==
    IF i = 0 THEN q
    ELSE LET r == IF rem = << >> /\ n[i] = 0 THEN rem ELSE <<n[i]>> \o rem
             L == Len(d)
             top == (IF Len(r) > L THEN r[L + 1] * Radix ELSE 0)
                      + (IF Len(r) >= L THEN r[L] ELSE 0)
             est == IF top \div d[L] < Radix THEN top \div d[L] ELSE Radix - 1
             t == BigDigitFix(r, d, est)
         IN  BigDivLoop(n, d, i - 1,
                        IF t = 0 THEN r ELSE BigSub(r, BigMulDigit(d, t, 0)),
                        q * Radix + t)

\* floor(n / d) for d > 0, as an ordinary integer
BigFloorDiv(n, d) ==
    LET f  == Radix \div (d[Len(d)] + 1)
        nf == BigMulDigit(n, f, 0)
    IN  BigDivLoop(nf, BigMulDigit(d, f, 0), Len(nf), << >>, 0)

(***************************************************************************)
(* Non-negative numbers num / den * math.pi^pi, exactly.  math.pi is the   *)
(* double nearest to pi, the rational PiNum / PiDen; it is kept as a       *)
(* factor until a number is compared or formatted, which keeps num and den *)
(* short.                                                                  *)
(***************************************************************************)
Rat(n, d) == [num |-> n, den |-> d, pi |-> 0]

RatFromNat(n) == Rat(BigFromNat(n), BigFromNat(1))

Milli == 10 * 100

RECURSIVE Gcd(_, _)
Gcd(a, b) == IF b = 0 THEN a ELSE Gcd(b, a % b)

\* the number a field holds: v thousandths, in lowest terms
RatFromMilli(v) ==
    LET g == Gcd(Milli, v)
    IN  Rat(BigFromNat(v \div g), BigFromNat(Milli \div g))

\* 884279719003555
PiNum ==
    BigAdd(BigMul(BigFromNat(884279719), BigFromNat(1000000)), BigFromNat(3555))

\* 2^48 = 281474976710656
PiDen ==
    BigAdd(BigMul(BigFromNat(281474976), BigFromNat(1000000)), BigFromNat(710656))

\* math.pi
math_pi == [num |-> BigFromNat(1), den |-> BigFromNat(1), pi |-> 1]

RECURSIVE RatPlain(_)
\* the same number with the factor math.pi^pi multiplied out
RatPlain(p) ==
    IF p.pi = 0 THEN p
    ELSE RatPlain([num |-> BigMul(p.num, PiNum), den |-> BigMul(p.den, PiDen),
                   pi |-> p.pi - 1])

RatMul(p, q) ==
    [num |-> BigMul(p.num, q.num), den |-> BigMul(p.den, q.den), pi |-> p.pi + q.pi]

\* p / q for q > 0 with no factor math.pi
RatDiv(p, q) ==
    [num |-> BigMul(p.num, q.den), den |-> BigMul(p.den, q.num), pi |-> p.pi]

RatAdd(p, q) ==
    LET a == IF p.pi = q.pi THEN p ELSE RatPlain(p)
        b == IF p.pi = q.pi THEN q ELSE RatPlain(q)
    IN  [num |-> BigAdd(BigMul(a.num, b.den), BigMul(b.num, a.den)),
         den |-> BigMul(a.den, b.den), pi |-> a.pi]

\* -1, 0, 1 as p < q, p = q, p > q
RatCmp(p, q) ==
    LET a == RatPlain(p)
        b == RatPlain(q)
    IN  BigCmp(BigMul(a.num, b.den), BigMul(b.num, a.den))

\* the nearest integer to p, a tie going to the even one
RatRoundHalfEven(p) ==
    LET a == RatPlain(p)
        q == BigFloorDiv(a.num, a.den)
        c == BigCmp(BigAdd(a.num, a.num), BigMul(a.den, BigFromNat(2 * q + 1)))
    IN  IF c < 0 THEN q
        ELSE IF c > 0 THEN q + 1
        ELSE IF q % 2 = 0 THEN q ELSE q + 1

\* f"{x:.1f}": x to one decimal, as a count of tenths
Format1(x) == RatRoundHalfEven(RatMul(x, RatFromNat(10)))

\* f"{x:.2f}": x to two decimals, as a count of hundredths
Format2(x) == RatRoundHalfEven(RatMul(x, RatFromNat(100)))

(***************************************************************************)
(* Reference tables.                                                       *)
(***************************************************************************)
\* amperes, by size and temperature rating
NEC_TABLE_COPPER ==
    ( "14"   :> ("60" :> 15  @@ "75" :> 20  @@ "90" :> 25)
   @@ "12"   :> ("60" :> 20  @@ "75" :> 25  @@ "90" :> 30)
   @@ "10"   :> ("60" :> 30  @@ "75" :> 35  @@ "90" :> 40)
   @@ "8"    :> ("60" :> 40  @@ "75" :> 50  @@ "90" :> 55)
   @@ "6"    :> ("60" :> 55  @@ "75" :> 65  @@ "90" :> 75)
   @@ "4"    :> ("60" :> 70  @@ "75" :> 85  @@ "90" :> 95)
   @@ "3"    :> ("60" :> 85  @@ "75" :> 100 @@ "90" :> 115)
   @@ "2"    :> ("60" :> 95  @@ "75" :> 115 @@ "90" :> 130)
   @@ "1"    :> ("60" :> 110 @@ "75" :> 130 @@ "90" :> 145)
   @@ "1/0"  :> ("60" :> 125 @@ "75" :> 150 @@ "90" :> 170)
   @@ "2/0"  :> ("60" :> 145 @@ "75" :> 175 @@ "90" :> 195)
   @@ "3/0"  :> ("60" :> 165 @@ "75" :> 200 @@ "90" :> 225)
   @@ "4/0"  :> ("60" :> 195 @@ "75" :> 230 @@ "90" :> 260)
   @@ "250"  :> ("60" :> 215 @@ "75" :> 255 @@ "90" :> 290)
   @@ "300"  :> ("60" :> 240 @@ "75" :> 285 @@ "90" :> 320)
   @@ "350"  :> ("60" :> 260 @@ "75" :> 310 @@ "90" :> 350)
   @@ "400"  :> ("60" :> 280 @@ "75" :> 335 @@ "90" :> 380)
   @@ "500"  :> ("60" :> 320 @@ "75" :> 380 @@ "90" :> 430)
   @@ "600"  :> ("60" :> 350 @@ "75" :> 420 @@ "90" :> 475)
   @@ "700"  :> ("60" :> 385 @@ "75" :> 460 @@ "90" :> 520)
   @@ "750"  :> ("60" :> 400 @@ "75" :> 475 @@ "90" :> 535)
   @@ "800"  :> ("60" :> 410 @@ "75" :> 490 @@ "90" :> 555)
   @@ "900"  :> ("60" :> 435 @@ "75" :> 520 @@ "90" :> 585)
   @@ "1000" :> ("60" :> 455 @@ "75" :> 545 @@ "90" :> 615) )

\* thousandths of an inch, by size
NEC_DIAMETERS_XHHW2 ==
    ( "14" :> 133 @@ "12" :> 152 @@ "10" :> 176 @@ "8" :> 236
   @@ "6" :> 274 @@ "4" :> 322 @@ "3" :> 350 @@ "2" :> 382 @@ "1" :> 442
   @@ "1/0" :> 482 @@ "2/0" :> 528 @@ "3/0" :> 580 @@ "4/0" :> 637
   @@ "250" :> 711 @@ "300" :> 766 @@ "350" :> 817 @@ "400" :> 864
   @@ "500" :> 949 @@ "600" :> 1051 @@ "700" :> 1121 @@ "750" :> 1156
   @@ "800" :> 1191 @@ "900" :> 1251 @@ "1000" :> 1317 )

WIRE_SIZES == DOMAIN NEC_TABLE_COPPER

TEMP_RATINGS == {"60", "75", "90"}

(***************************************************************************)
(* Values.                                                                 *)
(***************************************************************************)
\* Python's None, the value of an empty numeric input
NULL == -1

\* bool(v) of an optional number: None and 0 are false
Truthy(v) == v # NULL /\ v # 0

\* all([...])
all(values) == \A i \in 1..Len(values) : Truthy(values[i])

\* One value handed to an Output: what kind of text or component it is, the
\* numbers it shows (already rounded as the format string rounds them) and
\* the style word that carries the pass/fail colour.
Out(kind, nums, style) == [kind |-> kind, nums |-> nums, style |-> style]

\* "---"
Placeholder == Out("---", << >>, "")

\* what a call of a callback function produces
Return(values) == [exception |-> "", outputs |-> values]

Raise(name) == [exception |-> name, outputs |-> << >>]

(***************************************************************************)
(* calculate_all, lines 276-340.                                           *)
(***************************************************************************)
\* line 280: the inputs the safety check lists
checked_inputs(fla, ocpd, parallel, num_wireways, temp_corr, base_ampacity, phase_diam, ground_diam, ground_qty, wireway_area) ==
    <<fla, ocpd, parallel, num_wireways, base_ampacity, phase_diam, ground_diam,
      wireway_area>>

\* line 281: ["---"] * 11
undetermined == [i \in 1..11 |-> Placeholder]

\* the derating factor left out of the product
calculated_ampacity_underated(base_ampacity, parallel, temp_corr) ==
    RatMul(RatFromMilli(base_ampacity), RatFromMilli(parallel))

\* line 286
calculated_ampacity(base_ampacity, parallel, temp_corr) ==
    RatMul(RatMul(RatFromMilli(base_ampacity), RatFromMilli(parallel)),
           RatFromMilli(temp_corr))

\* >= for >
is_ampacity_safe_inclusive(ampacity, ocpd) ==
    RatCmp(ampacity, RatFromMilli(ocpd)) >= 0

\* line 287
is_ampacity_safe(ampacity, ocpd) == RatCmp(ampacity, RatFromMilli(ocpd)) > 0

\* // for /: whole parallel sets per wireway
conductors_in_raceway_floored(parallel, num_wireways) ==
    RatMul(RatFromNat(parallel \div num_wireways), RatFromNat(3))

\* line 290
conductors_in_raceway(parallel, num_wireways) ==
    RatMul(RatDiv(RatFromMilli(parallel), RatFromMilli(num_wireways)), RatFromNat(3))

\* lines 291, 292: math.pi * ((diam/2)**2)
circle_area(diam) ==
    LET r == RatDiv(RatFromMilli(diam), RatFromNat(2))
    IN  RatMul(math_pi, RatMul(r, r))

\* line 294
total_phase_area(conductors, phase_area) == RatMul(conductors, phase_area)

\* line 295
total_ground_area(ground_qty, ground_area) ==
    RatMul(RatFromMilli(ground_qty), ground_area)

\* line 296
total_fill_area(phase_total, ground_total) == RatAdd(phase_total, ground_total)

\* line 298
fill_percentage(fill_area, wireway_area) ==
    RatMul(RatDiv(fill_area, RatFromMilli(wireway_area)), RatFromNat(100))

\* line 299
is_fill_safe(percentage) == RatCmp(percentage, RatFromNat(20)) <= 0

\* lines 304-305, 309-310: the colour word of a class name
color_word(safe) == IF safe THEN "success" ELSE "danger"

\* lines 313-317
amp_banner(safe, ampacity_text, ocpd) ==
    Out(IF safe THEN "Ampacity Check: PASS" ELSE "Ampacity Check: FAIL",
        <<ampacity_text, ocpd>>, color_word(safe))

\* lines 319-323
fill_banner(safe, percentage_text) ==
    Out(IF safe THEN "Wireway Fill: PASS" ELSE "Wireway Fill: FAIL",
        <<percentage_text>>, color_word(safe))

\* lines 283-340: the calculation and the tuple returned
numeric_result(ocpd, parallel, num_wireways, temp_corr, base_ampacity, phase_diam, ground_diam, ground_qty, wireway_area) ==
    LET ampacity   == calculated_ampacity(base_ampacity, parallel, temp_corr)
        amp_safe   == is_ampacity_safe(ampacity, ocpd)
        phase      == total_phase_area(conductors_in_raceway(parallel, num_wireways),
                                       circle_area(phase_diam))
        ground     == total_ground_area(ground_qty, circle_area(ground_diam))
        fill       == total_fill_area(phase, ground)
        percentage == fill_percentage(fill, wireway_area)
        fill_safe  == is_fill_safe(percentage)
        amp_text   == Format1(ampacity)
        pct_text   == Format1(percentage)
    IN  <<  Out("A", <<amp_text>>, ""),
            Out("className", << >>, "text-" \o color_word(amp_safe)),
            Out("Base x Parallel x Corr", <<base_ampacity, parallel, temp_corr>>, ""),
            Out("className", << >>, "border-" \o color_word(amp_safe)),
            Out("in2", <<Format2(phase)>>, ""),
            Out("in2", <<Format2(ground)>>, ""),
            Out("in2", <<Format2(fill)>>, ""),
            Out("%", <<pct_text>>, ""),
            Out("className", << >>, "text-" \o color_word(fill_safe)),
            Out("className", << >>, "border-" \o color_word(fill_safe)),
            amp_banner(amp_safe, amp_text, ocpd),
            fill_banner(fill_safe, pct_text) >>

\* the check compares the calculated ampacity with the FLA, not the OCPD
calculate_all_against_fla(fla, ocpd, parallel, num_wireways, temp_corr, base_ampacity, phase_diam, ground_diam, ground_qty, wireway_area) ==
    IF ~all(checked_inputs(fla, ocpd, parallel, num_wireways, temp_corr,
                           base_ampacity, phase_diam, ground_diam, ground_qty,
                           wireway_area))
    THEN Return(undetermined)
    ELSE IF temp_corr = NULL \/ ground_qty = NULL THEN Raise("TypeError")
    ELSE Return(numeric_result(fla, parallel, num_wireways, temp_corr, base_ampacity,
                               phase_diam, ground_diam, ground_qty, wireway_area))

\* lines 276-340
calculate_all(fla, ocpd, parallel, num_wireways, temp_corr, base_ampacity, phase_diam, ground_diam, ground_qty, wireway_area) ==
    IF ~all(checked_inputs(fla, ocpd, parallel, num_wireways, temp_corr,
                           base_ampacity, phase_diam, ground_diam, ground_qty,
                           wireway_area))
    THEN Return(undetermined)
    \* line 286 multiplies by temp_corr, line 295 by ground_qty: None raises
    ELSE IF temp_corr = NULL \/ ground_qty = NULL THEN Raise("TypeError")
    ELSE Return(numeric_result(ocpd, parallel, num_wireways, temp_corr, base_ampacity,
                               phase_diam, ground_diam, ground_qty, wireway_area))

(***************************************************************************)
(* The lookup callbacks, lines 205-241.                                    *)
(***************************************************************************)
\* .get(): None on a miss, not the current value
update_phase_specs_get(size, temp, current_amp, current_diam, triggered) ==
    IF ~triggered THEN Return(<<current_amp, current_diam>>)
    ELSE Return(<< IF size \in DOMAIN NEC_TABLE_COPPER
                      /\ temp \in DOMAIN NEC_TABLE_COPPER[size]
                   THEN NEC_TABLE_COPPER[size][temp] * Milli
                   ELSE NULL,
                   IF size \in DOMAIN NEC_DIAMETERS_XHHW2
                   THEN NEC_DIAMETERS_XHHW2[size]
                   ELSE NULL >>)

\* lines 213-230; triggered is ctx.triggered
update_phase_specs(size, temp, current_amp, current_diam, triggered) ==
    IF ~triggered THEN Return(<<current_amp, current_diam>>)
    ELSE LET new_amp ==
                 IF size \in DOMAIN NEC_TABLE_COPPER
                    /\ temp \in DOMAIN NEC_TABLE_COPPER[size]
                 THEN NEC_TABLE_COPPER[size][temp] * Milli
                 ELSE current_amp
             new_diam ==
                 IF size \in DOMAIN NEC_DIAMETERS_XHHW2
                 THEN NEC_DIAMETERS_XHHW2[size]
                 ELSE current_diam
         IN  Return(<<new_amp, new_diam>>)

\* lines 238-241
update_ground_specs(size, current_diam) ==
    IF size \in DOMAIN NEC_DIAMETERS_XHHW2
    THEN Return(<<NEC_DIAMETERS_XHHW2[size]>>)
    ELSE Return(<<current_diam>>)

\* lines 345-350: whether the click reaches window.print()
print_requested(clicks) == clicks > 0

(***************************************************************************)
(* The page: component properties and the callback wiring.                 *)
(***************************************************************************)
\* the ten numeric inputs, by the name calculate_all gives each
Fields ==
    {"fla", "ocpd", "parallel", "num_wireways", "temp_corr", "base_ampacity",
     "phase_diam", "ground_diam", "ground_qty", "wireway_area"}

\* the three selects
Selects == {"phase_size", "temp_rating", "ground_size"}

\* the layout's values, lines 97-169
layout_input ==
    [fla |-> 2886800, ocpd |-> 3000000, parallel |-> 6000, num_wireways |-> 2000,
     temp_corr |-> 960, base_ampacity |-> 535000, phase_diam |-> 1156,
     ground_diam |-> 949, ground_qty |-> 1000, wireway_area |-> 56270]

layout_select ==
    [phase_size |-> "750", temp_rating |-> "90", ground_size |-> "500"]

\* the Output list of calculate_all, lines 247-261
calculate_all_outputs ==
    << "result-ampacity-display.children", "result-ampacity-display.className",
       "result-ampacity-calc-text.children", "card-ampacity-result.className",
       "display-phase-area.children", "display-ground-area.children",
       "display-total-fill.children", "result-fill-display.children",
       "result-fill-display.className", "card-fill-result.className",
       "ampacity-status-col.children", "fill-status-col.children" >>

\* a result property the layout leaves unset, lines 86-87, 160-192
Unset == Out("", << >>, "")

\* the auto-populated fields declared Input, not State, of their lookup callback
TriggersWithStateAsInput(prop) ==
    IF prop \in {"phase_size", "temp_rating"} THEN {"update_phase_specs"}
    ELSE IF prop = "ground_size" THEN {"update_ground_specs"}
    ELSE IF prop \in {"base_ampacity", "phase_diam"}
         THEN {"update_phase_specs", "calculate_all"}
    ELSE IF prop = "ground_diam" THEN {"update_ground_specs", "calculate_all"}
    ELSE IF prop \in Fields THEN {"calculate_all"}
    ELSE {}

\* the Input lists, lines 208-209, 235, 264-273: the callbacks a change of a
\* property fires.  The auto-populated fields are State, not Input, of the
\* lookup callbacks (lines 210-211, 236).
Triggers(prop) ==
    IF prop \in {"phase_size", "temp_rating"} THEN {"update_phase_specs"}
    ELSE IF prop = "ground_size" THEN {"update_ground_specs"}
    ELSE IF prop \in Fields THEN {"calculate_all"}
    ELSE {}

\* the selects whose change fires the callback that writes a field,
\* lines 206-209, 234-235
Feeds(field) ==
    IF field \in {"base_ampacity", "phase_diam"} THEN {"phase_size", "temp_rating"}
    ELSE IF field = "ground_diam" THEN {"ground_size"}
    ELSE {}

AutoFields == {f \in Fields : Feeds(f) # {}}

\* A return value reaches the page only if it is one value per declared
\* Output; a raised exception or a list of another length is refused and
\* the properties keep their values.
Delivered(ret, n_outputs) == ret.exception = "" /\ Len(ret.outputs) = n_outputs

(***************************************************************************)
(* State.                                                                  *)
(***************************************************************************)
VARIABLES
    input,          \* the value property of the ten numeric inputs
    select,         \* the value property of the three selects
    display,        \* the twelve result properties calculate_all writes
    pending,        \* the callbacks fired and not yet run
    ctx_triggered,  \* dash.callback_context.triggered of the pending run
    n_clicks,       \* btn-print.n_clicks
    prints,         \* calls of window.print()
    last_call,      \* the latest call of calculate_all: arguments and return
    user_value,     \* history: what the user typed in an auto-populated field
                    \* since the last change of a select feeding it
    events          \* user events so far

vars ==
    <<input, select, display, pending, ctx_triggered, n_clicks, prints,
      last_call, user_value, events>>

\* user events explored
MaxEvents == 2

\* no value typed since the last selection change
NoUserValue == NULL - 1

\* the values a user types in a field: empty, zero, the layout's value and one
\* other, chosen so that each check passes for one and fails for another
Typed(f) ==
    {NULL, 0, layout_input[f]} \cup
    CASE f = "fla"           -> {3100000}
      [] f = "ocpd"          -> {3081600}
      [] f = "parallel"      -> {7000}
      [] f = "num_wireways"  -> {1000}
      [] f = "temp_corr"     -> {1000}
      [] f = "base_ampacity" -> {500000}
      [] f = "phase_diam"    -> {1300}
      [] f = "ground_diam"   -> {1000}
      [] f = "ground_qty"    -> {2000}
      [] f = "wireway_area"  -> {50000}

\* the values a select is set to; "2000" and "105" are in no table
Selectable(sel) ==
    CASE sel = "phase_size"  -> {"750", "500", "2000"}
      [] sel = "temp_rating" -> {"90", "75", "105"}
      [] sel = "ground_size" -> {"500", "750", "2000"}

\* calculate_all on a snapshot of the ten inputs
Calculate(in) ==
    calculate_all(in.fla, in.ocpd, in.parallel, in.num_wireways, in.temp_corr,
                  in.base_ampacity, in.phase_diam, in.ground_diam, in.ground_qty,
                  in.wireway_area)

\* The page as served: the layout's values, nothing calculated yet, and the
\* initial call of every callback queued (none prevents it).
Init ==
    /\ input = layout_input
    /\ select = layout_select
    /\ display = [i \in 1..Len(calculate_all_outputs) |-> Unset]
    /\ pending = {"update_phase_specs", "update_ground_specs", "calculate_all"}
    /\ ctx_triggered = FALSE
    /\ n_clicks = 0
    /\ prints = 0
    /\ last_call = [called |-> FALSE, args |-> layout_input, ret |-> Return(<< >>)]
    /\ user_value = [f \in AutoFields |-> NoUserValue]
    /\ events = 0

\* Every callback fired has run.  User events are taken one at a time: the
\* callbacks one event fires run to completion before the next event.
Quiescent == pending = {}

\* The user types v in numeric input f.
EditInput(f, v) ==
    /\ Quiescent
    /\ events < MaxEvents
    /\ v # input[f]
    /\ input' = [input EXCEPT ![f] = v]
    /\ pending' = Triggers(f)
    /\ ctx_triggered' = TRUE
    /\ user_value' = IF f \in AutoFields THEN [user_value EXCEPT ![f] = v]
                     ELSE user_value
    /\ events' = events + 1
    /\ UNCHANGED <<select, display, n_clicks, prints, last_call>>

\* The user picks v in select sel.
ChangeSelect(sel, v) ==
    /\ Quiescent
    /\ events < MaxEvents
    /\ v # select[sel]
    /\ select' = [select EXCEPT ![sel] = v]
    /\ pending' = Triggers(sel)
    /\ ctx_triggered' = TRUE
    /\ user_value' = [f \in AutoFields |->
                         IF sel \in Feeds(f) THEN NoUserValue ELSE user_value[f]]
    /\ events' = events + 1
    /\ UNCHANGED <<input, display, n_clicks, prints, last_call>>

\* The user clicks Print / Export: the clientside callback, lines 343-355.
ClickPrint ==
    /\ Quiescent
    /\ events < MaxEvents
    /\ n_clicks' = n_clicks + 1
    /\ prints' = IF print_requested(n_clicks') THEN prints + 1 ELSE prints
    /\ events' = events + 1
    /\ UNCHANGED <<input, select, display, pending, ctx_triggered, last_call,
                   user_value>>

\* update_phase_specs runs and its two outputs are written.
RunUpdatePhaseSpecs ==
    /\ "update_phase_specs" \in pending
    /\ LET ret == update_phase_specs(select.phase_size, select.temp_rating,
                                     input.base_ampacity, input.phase_diam,
                                     ctx_triggered)
       IN  /\ input' = [input EXCEPT !["base_ampacity"] = ret.outputs[1],
                                     !["phase_diam"] = ret.outputs[2]]
           \* a callback is not fired by the outputs it writes itself
           /\ pending' = (pending \cup Triggers("base_ampacity")
                                  \cup Triggers("phase_diam"))
                            \ {"update_phase_specs"}
    /\ UNCHANGED <<select, display, ctx_triggered, n_clicks, prints, last_call,
                   user_value, events>>

\* update_ground_specs runs and its output is written.
RunUpdateGroundSpecs ==
    /\ "update_ground_specs" \in pending
    /\ LET ret == update_ground_specs(select.ground_size, input.ground_diam)
       IN  /\ input' = [input EXCEPT !["ground_diam"] = ret.outputs[1]]
           /\ pending' = (pending \cup Triggers("ground_diam"))
                            \ {"update_ground_specs"}
    /\ UNCHANGED <<select, display, ctx_triggered, n_clicks, prints, last_call,
                   user_value, events>>

\* calculate_all runs on the current inputs, once the callbacks that write
\* its inputs have run; its return is written if it is delivered.
RunCalculateAll ==
    /\ pending = {"calculate_all"}
    /\ LET ret == Calculate(input)
       IN  /\ last_call' = [called |-> TRUE, args |-> input, ret |-> ret]
           /\ display' = IF Delivered(ret, Len(calculate_all_outputs))
                         THEN ret.outputs
                         ELSE display
    /\ pending' = {}
    /\ UNCHANGED <<input, select, ctx_triggered, n_clicks, prints, user_value,
                   events>>

Next ==
    \/ \E f \in Fields : \E v \in Typed(f) : EditInput(f, v)
    \/ \E sel \in Selects : \E v \in Selectable(sel) : ChangeSelect(sel, v)
    \/ ClickPrint
    \/ RunUpdatePhaseSpecs
    \/ RunUpdateGroundSpecs
    \/ RunCalculateAll

Spec == Init /\ [][Next]_vars

(***************************************************************************)
(* calculate_all alone: any combination of the ten inputs, one call.       *)
(***************************************************************************)
\* The combinations called: every input at the layout's value or the other
\* typed value, and at most one of them empty or zero.
InitCalc ==
    /\ input \in [fla : Typed("fla"), ocpd : Typed("ocpd"),
                  parallel : Typed("parallel"),
                  num_wireways : Typed("num_wireways"),
                  temp_corr : Typed("temp_corr"),
                  base_ampacity : Typed("base_ampacity"),
                  phase_diam : Typed("phase_diam"),
                  ground_diam : Typed("ground_diam"),
                  ground_qty : Typed("ground_qty"),
                  wireway_area : Typed("wireway_area")]
    /\ Cardinality({f \in Fields : ~Truthy(input[f])}) <= 1
    /\ select = layout_select
    /\ display = [i \in 1..Len(calculate_all_outputs) |-> Unset]
    /\ pending = {"calculate_all"}
    /\ ctx_triggered = TRUE
    /\ n_clicks = 0
    /\ prints = 0
    /\ last_call = [called |-> FALSE, args |-> layout_input, ret |-> Return(<< >>)]
    /\ user_value = [f \in AutoFields |-> NoUserValue]
    /\ events = 0

SpecCalc == InitCalc /\ [][RunCalculateAll]_vars

(***************************************************************************)
(* Properties.  The expected values are written in whole numbers: the      *)
(* fields are thousandths, so base * parallel * temp_corr is AmpProduct    *)
(* billionths of an ampere and the fill percentage is FillNum / FillDen.   *)
(***************************************************************************)
Valid(in) == \A f \in Fields : Truthy(in[f])

\* base_ampacity * parallel * temp_corr, in 10^-9 A
AmpProduct(in) ==
    BigMul(BigMul(BigFromNat(in.base_ampacity), BigFromNat(in.parallel)),
           BigFromNat(in.temp_corr))

\* 10^-9 A in a tenth of an ampere
TenthOfAmp == BigFromNat(100000000)

\* ocpd, in 10^-9 A
OcpdScaled(in) == BigMul(BigFromNat(in.ocpd), BigFromNat(1000000))

\* (((parallel / num_wireways) * 3) * pi * (phase_diam / 2)^2
\*    + ground_qty * pi * (ground_diam / 2)^2) / wireway_area * 100
\*  = pi * (3000 * parallel * phase_diam^2 + ground_qty * ground_diam^2 * num_wireways)
\*       / (40000 * num_wireways * wireway_area)       with the fields in thousandths
FillNum(in) ==
    BigMul(PiNum,
           BigAdd(BigMul(BigFromNat(3000 * in.parallel),
                         BigFromNat(in.phase_diam * in.phase_diam)),
                  BigMul(BigMul(BigFromNat(in.ground_qty),
                                BigFromNat(in.ground_diam * in.ground_diam)),
                         BigFromNat(in.num_wireways))))

FillDen(in) ==
    BigMul(PiDen, BigMul(BigFromNat(40 * in.num_wireways), BigFromNat(1000 * in.wireway_area)))

\* q is n / d rounded to an integer
Nearest(q, n, d) ==
    /\ q >= 0
    /\ q = 0 \/ BigCmp(BigMul(d, BigFromNat(2 * q - 1)), BigAdd(n, n)) <= 0
    /\ BigCmp(BigAdd(n, n), BigMul(d, BigFromNat(2 * q + 1))) <= 0

\* every value of the return is the placeholder
IsUndetermined(ret) ==
    /\ ret.exception = ""
    /\ ret.outputs # << >>
    /\ \A i \in 1..Len(ret.outputs) : ret.outputs[i] = Placeholder

NumOutputs == Len(calculate_all_outputs)

\* C1 (as claimed): calculate_all returns the undetermined sentinel exactly
\* when one of its ten inputs is None or 0.
C1_SentinelIffAnyInputMissing ==
    last_call.called =>
        (IsUndetermined(last_call.ret) <=> ~Valid(last_call.args))

\* C2 (as claimed): no call of calculate_all raises, whatever inputs are None,
\* zero or a number.
C2_NeverRaises ==
    last_call.called => last_call.ret.exception = ""

\* C3 (as claimed): when the guard of calculate_all fires, the return holds one
\* placeholder for every declared Output, as many values as the numeric tuple.
C3_SentinelOnePerOutput ==
    (last_call.called /\ IsUndetermined(last_call.ret)) =>
        Len(last_call.ret.outputs) = NumOutputs

\* C4: for valid inputs the ampacity shown is base_ampacity * parallel *
\* temp_corr (to one decimal), and text colour, card border, banner heading
\* and banner colour show success exactly when that product is strictly
\* greater than ocpd, danger otherwise.
C4_AmpacityCheck ==
    (last_call.called /\ Valid(last_call.args)) =>
        LET in   == last_call.args
            out  == last_call.ret.outputs
            pass == BigCmp(AmpProduct(in), OcpdScaled(in)) > 0
            word == IF pass THEN "success" ELSE "danger"
        IN  /\ last_call.ret.exception = ""
            /\ Len(out) = NumOutputs
            /\ out[1].kind = "A"
            /\ Nearest(out[1].nums[1], AmpProduct(in), TenthOfAmp)
            /\ out[2].style = "text-" \o word
            /\ out[4].style = "border-" \o word
            /\ out[11].kind = (IF pass THEN "Ampacity Check: PASS"
                                       ELSE "Ampacity Check: FAIL")
            /\ out[11].style = word
            /\ out[11].nums = <<out[1].nums[1], in.ocpd>>

\* C4 witness: a valid call whose calculated ampacity equals ocpd, shown FAIL
C4_Witness ==
    /\ last_call.called
    /\ Valid(last_call.args)
    /\ BigCmp(AmpProduct(last_call.args), OcpdScaled(last_call.args)) = 0
    /\ last_call.ret.outputs[11].kind = "Ampacity Check: FAIL"

C6_LookupDefaulting ==
    [][ /\ ( /\ "update_phase_specs" \in pending
             /\ "update_phase_specs" \notin pending'
             /\ ctx_triggered )
           => /\ input'.base_ampacity =
                    IF select.phase_size \in WIRE_SIZES
                       /\ select.temp_rating \in TEMP_RATINGS
                    THEN NEC_TABLE_COPPER[select.phase_size][select.temp_rating] * 1000
                    ELSE input.base_ampacity
              /\ input'.phase_diam =
                    IF select.phase_size \in WIRE_SIZES
                    THEN NEC_DIAMETERS_XHHW2[select.phase_size]
                    ELSE input.phase_diam
              /\ (select.phase_size = "750" /\ select.temp_rating = "90")
                    => input'.base_ampacity = 535000
              /\ select.phase_size = "500" => input'.phase_diam = 949
        /\ ( /\ "update_ground_specs" \in pending
             /\ "update_ground_specs" \notin pending' )
           => /\ input'.ground_diam =
                    IF select.ground_size \in WIRE_SIZES
                    THEN NEC_DIAMETERS_XHHW2[select.ground_size]
                    ELSE input.ground_diam
              /\ select.ground_size = "500" => input'.ground_diam = 949
      ]_vars

\* C6 witness: temperature rating set to 105 (in no table), then size set to
\* 500: one run of update_phase_specs found the diameter 0.949 and, missing
\* the ampacity, kept 535 A
C6_Witness ==
    /\ Quiescent
    /\ select.phase_size = "500"
    /\ select.temp_rating = "105"
    /\ input.phase_diam = 949
    /\ input.base_ampacity = 535000

\* C7: a value the user typed in the base ampacity, the phase diameter or the
\* ground diameter is still the field's value after any events among which no
\* select feeding the field changed (phase size and temperature rating for
\* the first two, ground size for the third).
C7_OverridePersists ==
    \A f \in AutoFields :
        user_value[f] # NoUserValue => input[f] = user_value[f]

\* C7 witness: 500 A typed as base ampacity, then the ground size changed; the
\* lookup and the recalculation have run and the field still holds 500 A
C7_Witness ==
    /\ Quiescent
    /\ events = 2
    /\ user_value["base_ampacity"] = 500000
    /\ input.base_ampacity = 500000
    /\ select.ground_size = "750"
    /\ input.ground_diam = 1156
    /\ last_call.called
    /\ last_call.args = input

\* C8 (as claimed): once the triggered callbacks have run, the results shown
\* are calculate_all of the current ten inputs.
C8_DisplayIsCalculateOfInputs ==
    Quiescent =>
        LET ret == Calculate(input)
        IN  ret.exception = "" /\ display = ret.outputs

\* C9: the page as first shown, with the layout's values, shows 3081.6 A with
\* the ampacity check PASS and a fill percentage between 18 and 20 (18.0 to
\* one decimal) with the fill check PASS.
C9_InitialResult ==
    (Quiescent /\ events = 0) =>
        /\ input = layout_input
        /\ Len(display) = NumOutputs
        /\ display[1] = Out("A", <<30816>>, "")
        /\ display[11].kind = "Ampacity Check: PASS"
        /\ display[11].style = "success"
        /\ BigCmp(BigMul(FillDen(input), BigFromNat(18)), FillNum(input)) < 0
        /\ BigCmp(FillNum(input), BigMul(FillDen(input), BigFromNat(20))) < 0
        /\ display[8] = Out("%", <<180>>, "")
        /\ display[12].kind = "Wireway Fill: PASS"
        /\ display[12].style = "success"

\* C9 witness: the initial calls of the three callbacks have run
C9_Witness ==
    /\ Quiescent
    /\ events = 0
    /\ last_call.called
    /\ last_call.args = layout_input

\* C10: for valid inputs, calculate_all returns the same twelve values
\* whatever non-zero FLA is given.
C10_FlaNonInterference ==
    (last_call.called /\ Valid(last_call.args)) =>
        \A v \in Typed("fla") :
            Truthy(v) => Calculate([last_call.args EXCEPT !["fla"] = v]) = last_call.ret

\* C10 witness: a valid call with an FLA other than the layout's (3100 A,
\* above the calculated 3081.6 A and the OCPD), shown PASS
C10_Witness ==
    /\ last_call.called
    /\ last_call.args = [layout_input EXCEPT !["fla"] = 3100000]
    /\ Len(last_call.ret.outputs) = NumOutputs
    /\ last_call.ret.outputs[11].kind = "Ampacity Check: PASS"

====
